---- MODULE Spec2Model ----
(***************************************************************************)
(* Life Skill Calculator (kar-mi/bpsr-profit-calc): the Pricing Store of   *)
(* LifeSkillCalculator (ingredients, recipes), its load/save effects on    *)
(* localStorage, the cost engine, the filtered/sorted recipe list and the  *)
(* import/export of IngredientMaster.                                      *)
(*                                                                         *)
(* React semantics assumed by the model: state updates made by a handler   *)
(* are batched and followed by one render; the effects whose dependency    *)
(* changed identity run after a committed render; an exception thrown by a *)
(* render or by an effect, with no error boundary in the tree, unmounts    *)
(* the tree (pc = "crashed") and the render that threw is not committed.   *)
(***************************************************************************)
EXTENDS Integers, Sequences, FiniteSets, TLC

VARIABLES
    ingredients,       \* useState ingredients: id -> Ingredient object
    recipes,           \* useState recipes: the stored recipe array
    selectedSkill,     \* useState selectedSkill
    sortBy,            \* useState sortBy
    displayed,         \* filteredRecipes of the last committed render
    groupedRecipes,    \* useState groupedRecipes (never read)
    selectedRecipe,    \* useState selectedRecipe
    storage,           \* localStorage: keys "ingredients" and "recipes"
    queuedIngredients, \* setIngredients calls of the mount effects, not yet rendered
    queuedRecipes,     \* setRecipes updaters of the mount effects, not yet rendered
    effectRuns,        \* how many times the mount effects have run
    pc,                \* "mounted" | "ready" | "crashed"
    notice,            \* the last alert() shown by handleUpload
    last,              \* the last event handled (history)
    persisted0,        \* localStorage as found when the page was opened (history)
    events             \* number of user events handled

vars == <<ingredients, recipes, selectedSkill, sortBy, displayed, groupedRecipes,
          selectedRecipe, storage,
          queuedIngredients, queuedRecipes, effectRuns, pc, notice, last,
          persisted0, events>>

\* Number of user events one behaviour handles.
MaxEvents == 2
\* Number of times React runs the mount effects (1 in production, 2 under StrictMode).
MaxEffectRuns == 2

-----------------------------------------------------------------------------
(* JavaScript values: numbers, NaN, null, undefined and strings.           *)

Num(n) == [t |-> "number", v |-> n]
NaN == [t |-> "NaN", v |-> 0]
Null == [t |-> "null", v |-> 0]
Undefined == [t |-> "undefined", v |-> 0]
Str == [t |-> "string", v |-> 0]

\* A field an object does not have (reads as undefined).
Missing == "<undefined>"

\* typeof x === "number" (NaN is a number to typeof).
TypeofNumber(x) == x.t \in {"number", "NaN"}

\* ToNumber: null is 0, undefined and non-numeric strings are NaN.
ToNumber(x) ==
    IF x.t = "number" THEN x
    ELSE IF x.t = "null" THEN Num(0)
    ELSE NaN

JsMul(a, b) ==
    LET x == ToNumber(a)
        y == ToNumber(b)
    IN  IF x.t = "NaN" \/ y.t = "NaN" THEN NaN ELSE Num(x.v * y.v)

JsAdd(a, b) ==
    LET x == ToNumber(a)
        y == ToNumber(b)
    IN  IF x.t = "NaN" \/ y.t = "NaN" THEN NaN ELSE Num(x.v + y.v)

JsSub(a, b) ==
    LET x == ToNumber(a)
        y == ToNumber(b)
    IN  IF x.t = "NaN" \/ y.t = "NaN" THEN NaN ELSE Num(x.v - y.v)

\* JSON.stringify of a number followed by JSON.parse: NaN is written as null.
JsonValue(x) == IF x.t = "NaN" THEN Null ELSE x

\* parseFloat of the text of the price box.
parseFloat(text) ==
    IF text = "0" THEN Num(0)
    ELSE IF text = "12" THEN Num(12)
    ELSE NaN

\* The texts a user leaves in a price box: a number, or nothing.
PriceTexts == {"0", ""}

-----------------------------------------------------------------------------
(* The Catalog (@/data/ingredients, @/data/recipes).                       *)

EmptyMap == [k \in {} |-> Null]

INGREDIENT_MAP ==
    [k \in {"iron_ore", "gem"} |->
        IF k = "iron_ore"
        THEN [id |-> "iron_ore", name |-> "Iron Ore", icon |-> "iron.png",
              defaultPrice |-> Num(10)]
        ELSE [id |-> "gem", name |-> "Gem", icon |-> Missing,
              defaultPrice |-> Num(5)]]

RECIPES ==
    << [id |-> "R1", name |-> "Iron Ingot", icon |-> "ingot.png", skill |-> "Smelting",
        sellValue |-> Num(50),
        ingredients |-> << [id |-> "iron_ore", qty |-> 3] >>],
       [id |-> "R2", name |-> "Alloy Plate", icon |-> "plate.png", skill |-> "Smelting",
        sellValue |-> Num(125),
        ingredients |-> << [id |-> "R1", qty |-> 2], [id |-> "gem", qty |-> 1],
                           [id |-> "mystery_dust", qty |-> 4] >>],
       [id |-> "R3", name |-> "Silk Thread", icon |-> Missing, skill |-> "Weaving",
        sellValue |-> Num(20),
        ingredients |-> << >>] >>

RecipeIds == {RECIPES[i].id : i \in DOMAIN RECIPES}
CatalogRecipe(id) == CHOOSE r \in {RECIPES[i] : i \in DOMAIN RECIPES} : r.id = id

\* String.prototype.localeCompare on the catalog's recipe names: their
\* collation rank ("Alloy Plate" < "Iron Ingot" < "Silk Thread").
LocaleRank(name) ==
    IF name = "Alloy Plate" THEN 1
    ELSE IF name = "Iron Ingot" THEN 2
    ELSE 3

localeCompare(a, b) == Num(LocaleRank(a) - LocaleRank(b))

\* The skill filter buttons.
Skills == {"All", "Smelting", "Gemcrafting", "Weaving"}
SortModes == {"name", "profit", "totalCost"}

-----------------------------------------------------------------------------
(* Cost engine.                                                            *)

\* recipes.find(r => r.id === id): <<the first match>>, or << >> for undefined.
FindRecipe(recs, id) ==
    IF \E i \in DOMAIN recs : recs[i].id = id
    THEN LET i == CHOOSE i \in DOMAIN recs :
                    /\ recs[i].id = id
                    /\ \A j \in DOMAIN recs : recs[j].id = id => i <= j
         IN  <<recs[i]>>
    ELSE << >>

\* The cost of a recipe's own ingredients, priced from the ingredient map.
RECURSIVE OwnIngredientCost(_, _)
OwnIngredientCost(entries, ing) ==
    IF entries = << >> THEN Num(0)
    ELSE JsAdd(IF Head(entries).id \in DOMAIN ing
               THEN JsMul(ing[Head(entries).id].defaultPrice, Num(Head(entries).qty))
               ELSE Num(0),
               OwnIngredientCost(Tail(entries), ing))

CostStep_NestedCost(sum, entry, ing, recs) ==
    IF entry.id \in DOMAIN ing
    THEN JsAdd(sum, JsMul(ing[entry.id].defaultPrice, Num(entry.qty)))
    ELSE IF FindRecipe(recs, entry.id) # << >>
    THEN JsAdd(sum, JsMul(OwnIngredientCost(FindRecipe(recs, entry.id)[1].ingredients, ing),
                          Num(entry.qty)))
    ELSE sum

\* One step of the reduce of calculateRecipeCost.
CostStep(sum, entry, ing, recs) ==
    IF entry.id \in DOMAIN ing
    THEN JsAdd(sum, JsMul(ing[entry.id].defaultPrice, Num(entry.qty)))
    ELSE IF FindRecipe(recs, entry.id) # << >>
    THEN JsAdd(sum, JsMul(FindRecipe(recs, entry.id)[1].sellValue, Num(entry.qty)))
    ELSE sum

RECURSIVE Reduce(_, _, _, _)
Reduce(entries, sum, ing, recs) ==
    IF entries = << >> THEN sum
    ELSE Reduce(Tail(entries), CostStep(sum, Head(entries), ing, recs), ing, recs)

calculateRecipeCost(recipe, ing, recs) == Reduce(recipe.ingredients, Num(0), ing, recs)

Profit(recipe, ing, recs) == JsSub(recipe.sellValue, calculateRecipeCost(recipe, ing, recs))

-----------------------------------------------------------------------------
(* filteredRecipes: the skill filter followed by Array.prototype.sort.     *)

compareFn_Ascending(a, b, mode, ing, recs) ==
    IF mode = "name" THEN localeCompare(a.name, b.name)
    ELSE IF mode = "profit" THEN JsSub(Profit(a, ing, recs), Profit(b, ing, recs))
    ELSE JsSub(calculateRecipeCost(b, ing, recs), calculateRecipeCost(a, ing, recs))

\* The comparator handed to sort.
compareFn(a, b, mode, ing, recs) ==
    IF mode = "name" THEN localeCompare(a.name, b.name)
    ELSE IF mode = "profit" THEN JsSub(Profit(b, ing, recs), Profit(a, ing, recs))
    ELSE JsSub(calculateRecipeCost(a, ing, recs), calculateRecipeCost(b, ing, recs))

\* SortCompare of ECMAScript: a comparator result of NaN counts as +0.
SortCompare(a, b, mode, ing, recs) ==
    LET v == compareFn(a, b, mode, ing, recs)
    IN  IF v.t = "NaN" THEN 0 ELSE v.v

\* ECMAScript's "consistent comparator" for the elements of list.
ConsistentComparator(list, mode, ing, recs) ==
    LET C(i, j) == SortCompare(list[i], list[j], mode, ing, recs)
    IN  /\ \A i, j \in DOMAIN list : (C(i, j) < 0) <=> (C(j, i) > 0)
        /\ \A i, j, k \in DOMAIN list : C(i, j) <= 0 /\ C(j, k) <= 0 => C(i, k) <= 0
        /\ \A i, j, k \in DOMAIN list : C(i, j) = 0 /\ C(j, k) = 0 => C(i, k) = 0

Front(s) == SubSeq(s, 1, Len(s) - 1)

RECURSIVE InsertSorted(_, _, _, _, _)
InsertSorted(s, x, mode, ing, recs) ==
    IF s = << >> THEN <<x>>
    ELSE IF SortCompare(x, s[Len(s)], mode, ing, recs) < 0
    THEN Append(InsertSorted(Front(s), x, mode, ing, recs), s[Len(s)])
    ELSE Append(s, x)

RECURSIVE StableSort(_, _, _, _)
StableSort(list, mode, ing, recs) ==
    IF list = << >> THEN << >>
    ELSE InsertSorted(StableSort(Front(list), mode, ing, recs), list[Len(list)],
                      mode, ing, recs)

ArrayPermutations(list) ==
    LET n == Len(list)
        Bij == {f \in [1..n -> 1..n] : \A i, j \in 1..n : f[i] = f[j] => i = j}
    IN  {[i \in 1..n |-> list[f[i]]] : f \in Bij}

\* Array.prototype.sort: the stable order for a consistent comparator, an
\* implementation-defined order otherwise.
ArraySort(list, mode, ing, recs) ==
    IF ConsistentComparator(list, mode, ing, recs)
    THEN {StableSort(list, mode, ing, recs)}
    ELSE ArrayPermutations(list)

\* recipes.filter(r => r.skill === selectedSkill)
FilterBySkill(recs, skill) ==
    LET Keep(r) == r.skill = skill
    IN  SelectSeq(recs, Keep)

\* The outcomes of evaluating filteredRecipes in a render: the list shown and
\* the recipes array as the evaluation leaves it. With "All" the array that is
\* sorted (in place) is the stored array itself.
filteredRecipes(recs, skill, mode, ing) ==
    IF skill = "All"
    THEN {[stored |-> s, shown |-> s] : s \in ArraySort(recs, mode, ing, recs)}
    ELSE {[stored |-> recs, shown |-> s] :
             s \in ArraySort(FilterBySkill(recs, skill), mode, ing, recs)}

\* groupRecipesBySkill: the recipes of each skill, in the order of recs.
groupRecipesBySkill(recs) ==
    [skill \in {recs[i].skill : i \in DOMAIN recs} |-> FilterBySkill(recs, skill)]

-----------------------------------------------------------------------------
(* Pricing Store setters.                                                  *)

\* {...prev[id]} of an id the map does not hold: an object with no fields.
EmptyObject == [id |-> Missing, name |-> Missing, icon |-> Missing,
                defaultPrice |-> Undefined]

SpreadEntry(prev, id) == IF id \in DOMAIN prev THEN prev[id] ELSE EmptyObject

handleIngredientPriceChange_DropsFields(prev, id, newPrice) ==
    [k \in DOMAIN prev \cup {id} |->
        IF k = id THEN [EmptyObject EXCEPT !.id = id, !.defaultPrice = newPrice]
        ELSE prev[k]]

\* The updater handleIngredientPriceChange hands to setIngredients.
handleIngredientPriceChange(prev, id, newPrice) ==
    [k \in DOMAIN prev \cup {id} |->
        IF k = id THEN [SpreadEntry(prev, id) EXCEPT !.defaultPrice = newPrice]
        ELSE prev[k]]

\* The updater handleRecipeSellValueChange hands to setRecipes.
handleRecipeSellValueChange(prev, id, newValue) ==
    [i \in DOMAIN prev |->
        IF prev[i].id = id THEN [prev[i] EXCEPT !.sellValue = newValue] ELSE prev[i]]

-----------------------------------------------------------------------------
(* Persistence: localStorage documents.                                    *)

Absent == [kind |-> "absent", map |-> EmptyMap]
Malformed == [kind |-> "malformed", map |-> EmptyMap]
JsonDoc(m) == [kind |-> "json", map |-> m]

\* JSON.stringify(ingredients), as JSON.parse reads it back.
StringifyIngredients(ing) ==
    JsonDoc([k \in DOMAIN ing |-> [ing[k] EXCEPT !.defaultPrice = JsonValue(@)]])

\* JSON.stringify(saveObj) of the recipes save effect.
StringifyRecipes(recs) ==
    JsonDoc([id \in {recs[i].id : i \in DOMAIN recs} |->
        LET i == CHOOSE i \in DOMAIN recs :
                    /\ recs[i].id = id
                    /\ \A j \in DOMAIN recs : recs[j].id = id => j <= i
        IN  [sellValue |-> JsonValue(recs[i].sellValue)]])

\* parsed[r.id]?.sellValue ?? r.sellValue
MergeSellValue(r, parsed) ==
    IF r.id \in DOMAIN parsed /\ parsed[r.id].sellValue.t \notin {"null", "undefined"}
    THEN parsed[r.id].sellValue
    ELSE r.sellValue

\* The updater the load effect hands to setRecipes.
LoadRecipes(prev, parsed) ==
    [i \in DOMAIN prev |-> [prev[i] EXCEPT !.sellValue = MergeSellValue(prev[i], parsed)]]

RECURSIVE ApplyRecipeUpdaters(_, _)
ApplyRecipeUpdaters(prev, queue) ==
    IF queue = << >> THEN prev
    ELSE ApplyRecipeUpdaters(LoadRecipes(prev, Head(queue)), Tail(queue))

-----------------------------------------------------------------------------
(* IngredientMaster.                                                       *)

\* Object.values(ingredients), the ingredients prop.
ObjectValues(ing) == {ing[k] : k \in DOMAIN ing}

\* ing.name.toLowerCase() throws a TypeError when an entry has no name.
FilteredThrows(ing) == \E e \in ObjectValues(ing) : e.name = Missing

\* filtered, with the search box empty: every entry matches.
Filtered(ing) == ObjectValues(ing)

\* The key acc[ing.id] writes: an absent id is the key "undefined".
ExportKey(e) == IF e.id = Missing THEN "undefined" ELSE e.id

handleDownload_KeyedByName(ing) ==
    JsonDoc([k \in {e.name : e \in ObjectValues(ing)} |->
        LET e == CHOOSE e \in ObjectValues(ing) : e.name = k
        IN  JsonValue(e.defaultPrice)])

\* handleDownload: the document written to the downloaded file.
handleDownload(ing) ==
    JsonDoc([k \in {ExportKey(e) : e \in ObjectValues(ing)} |->
        LET e == CHOOSE e \in ObjectValues(ing) : ExportKey(e) = k
        IN  JsonValue(e.defaultPrice)])

\* The keys of an uploaded document for which onPriceChange is called.
NumericKeys(doc) == {k \in DOMAIN doc.map : TypeofNumber(doc.map[k])}

\* handleUpload's forEach: the setIngredients updaters it queues, composed.
RECURSIVE ApplyPrices(_, _, _)
ApplyPrices(prev, doc, keys) ==
    IF keys = {} THEN prev
    ELSE LET k == CHOOSE k \in keys : TRUE
         IN  ApplyPrices(handleIngredientPriceChange(prev, k, doc.map[k]), doc,
                         keys \ {k})

\* What alert() shows at the end of reader.onload.
UploadNotice(doc) == IF doc.kind = "json" THEN "success" ELSE "failed"

-----------------------------------------------------------------------------
(* localStorage as the page finds it, and the documents a user uploads.    *)

\* Written by an earlier session in which iron_ore was priced 12.
SavedIngredients ==
    StringifyIngredients(handleIngredientPriceChange(INGREDIENT_MAP, "iron_ore", Num(12)))

\* Written by an earlier session in which the gem price box was left empty.
SavedEmptyPrice ==
    StringifyIngredients(handleIngredientPriceChange(INGREDIENT_MAP, "gem", NaN))

\* Written by a session of a catalog that had no gem yet.
SavedBeforeGem ==
    JsonDoc([k \in {"iron_ore"} |-> SavedIngredients.map[k]])


\* Recipe overrides of a catalog that had only R1, sold at 55.
SavedRecipes == JsonDoc([k \in {"R1"} |-> [sellValue |-> Num(55)]])

\* The two documents localStorage holds when the page is opened.
Persisted ==
    { [ingredients |-> Absent,           recipes |-> Absent],
      [ingredients |-> Malformed,        recipes |-> Absent],
      [ingredients |-> Absent,           recipes |-> Malformed],
      [ingredients |-> SavedIngredients, recipes |-> SavedRecipes],
      [ingredients |-> SavedEmptyPrice,  recipes |-> SavedRecipes],
      [ingredients |-> SavedBeforeGem,   recipes |-> Absent] }

UploadSeveral ==
    JsonDoc([k \in {"iron_ore", "gem"} |-> IF k = "iron_ore" THEN Num(12) ELSE Num(7)])
UploadNonNumeric ==
    JsonDoc([k \in {"iron_ore", "gem"} |-> IF k = "iron_ore" THEN Num(12) ELSE Str])
UploadBogus ==
    JsonDoc([k \in {"iron_ore", "bogus_id", "gem"} |->
        IF k = "iron_ore" THEN Num(12) ELSE IF k = "bogus_id" THEN Num(99) ELSE Str])
UploadRecipeId == JsonDoc([k \in {"R1"} |-> Num(99)])

UploadDocs == {Malformed, UploadSeveral, UploadNonNumeric, UploadBogus, UploadRecipeId}

\* The value typed into a recipe's sell value box, and the ids it is called with.
SellValues == {Num(45)}
SellIds == RecipeIds \cup {"R9"}

-----------------------------------------------------------------------------
(* State machine.                                                          *)

Event(op, id, val, doc) == [op |-> op, id |-> id, val |-> val, doc |-> doc]

\* useState initial values and the first render (which sorts RECIPES by name,
\* selectedSkill being "All"), with localStorage as found.
Init ==
    /\ ingredients = INGREDIENT_MAP
    /\ \E out \in filteredRecipes(RECIPES, "All", "name", INGREDIENT_MAP) :
        /\ recipes = out.stored
        /\ displayed = out.shown
    /\ groupedRecipes = groupRecipesBySkill(RECIPES)
    /\ selectedRecipe = RECIPES[1]
    /\ selectedSkill = "All"
    /\ sortBy = "name"
    /\ \E found \in Persisted :
        /\ storage = found
        /\ persisted0 = found
    /\ queuedIngredients = << >>
    /\ queuedRecipes = << >>
    /\ effectRuns = 0
    /\ pc = "mounted"
    /\ notice = "none"
    /\ last = Event("mount", Missing, Null, Absent)
    /\ events = 0

\* A render of LifeSkillCalculator with the given state, and the save effects
\* of the state that changed identity. IngredientMaster's render throws when
\* an entry has no name; the tree is then unmounted and nothing is committed.
Rerender(ing2, rec2, skill2, mode2, ingChanged, recChanged) ==
    \E out \in filteredRecipes(rec2, skill2, mode2, ing2) :
        IF FilteredThrows(ing2)
        THEN /\ pc' = "crashed"
             /\ UNCHANGED <<ingredients, recipes, selectedSkill, sortBy, displayed,
                            storage>>
        ELSE /\ pc' = "ready"
             /\ ingredients' = ing2
             /\ recipes' = out.stored
             /\ displayed' = out.shown
             /\ selectedSkill' = skill2
             /\ sortBy' = mode2
             /\ storage' =
                  [ingredients |-> IF ingChanged THEN StringifyIngredients(ing2)
                                   ELSE storage.ingredients,
                   recipes |-> IF recChanged THEN StringifyRecipes(out.stored)
                               ELSE storage.recipes]

\* One run of the three mount effects: the load effect, then the two save
\* effects, which write the state of the render they closed over.
RunMountEffects ==
    /\ pc = "mounted"
    /\ effectRuns < MaxEffectRuns
    /\ effectRuns' = effectRuns + 1
    /\ IF storage.ingredients.kind = "malformed" \/ storage.recipes.kind = "malformed"
       THEN /\ pc' = "crashed"
            /\ UNCHANGED <<storage, queuedIngredients, queuedRecipes>>
       ELSE /\ pc' = pc
            /\ queuedIngredients' =
                 IF storage.ingredients.kind = "json"
                 THEN Append(queuedIngredients, storage.ingredients.map)
                 ELSE queuedIngredients
            /\ queuedRecipes' =
                 IF storage.recipes.kind = "json"
                 THEN Append(queuedRecipes, storage.recipes.map)
                 ELSE queuedRecipes
            /\ storage' = [ingredients |-> StringifyIngredients(ingredients),
                           recipes |-> StringifyRecipes(recipes)]
    /\ UNCHANGED <<ingredients, recipes, selectedSkill, sortBy, displayed, notice,
                   last, persisted0, events, groupedRecipes, selectedRecipe>>

\* The render that follows the mount effects, applying what they queued.
CommitStartup ==
    /\ pc = "mounted"
    /\ effectRuns >= 1
    /\ Rerender(IF queuedIngredients = << >> THEN ingredients
                ELSE queuedIngredients[Len(queuedIngredients)],
                ApplyRecipeUpdaters(recipes, queuedRecipes),
                selectedSkill, sortBy,
                queuedIngredients # << >>, queuedRecipes # << >>)
    /\ queuedIngredients' = << >>
    /\ queuedRecipes' = << >>
    /\ last' = Event("startup", Missing, Null, Absent)
    /\ UNCHANGED <<effectRuns, notice, persisted0, events, groupedRecipes,
                   selectedRecipe>>

Ready ==
    /\ pc = "ready"
    /\ events < MaxEvents
    /\ events' = events + 1
    /\ UNCHANGED <<queuedIngredients, queuedRecipes, effectRuns, persisted0>>

\* A price box of the ingredient list is edited.
PriceEdit ==
    /\ Ready
    /\ \E e \in Filtered(ingredients), text \in PriceTexts :
        /\ Rerender(handleIngredientPriceChange(ingredients, e.id, parseFloat(text)),
                    recipes, selectedSkill, sortBy, TRUE, FALSE)
        /\ last' = Event("price", e.id, parseFloat(text), Absent)
    /\ UNCHANGED <<notice, groupedRecipes, selectedRecipe>>

\* A recipe card reports a new sell value: setRecipes with the updated array,
\* setGroupedRecipes and setSelectedRecipe from inside the updater.
SellEdit ==
    /\ Ready
    /\ \E id \in SellIds, v \in SellValues :
        LET updated == handleRecipeSellValueChange(recipes, id, v)
            selected == FindRecipe(updated, selectedRecipe.id)
        IN  /\ Rerender(ingredients, updated, selectedSkill, sortBy, FALSE, TRUE)
            /\ groupedRecipes' =
                 IF pc' = "ready" THEN groupRecipesBySkill(updated) ELSE groupedRecipes
            /\ selectedRecipe' =
                 IF pc' = "ready" /\ selected # << >> THEN selected[1]
                 ELSE selectedRecipe
            /\ last' = Event("sell", id, v, Absent)
    /\ UNCHANGED notice

\* A skill button is clicked.
SelectSkill ==
    /\ Ready
    /\ \E skill \in Skills \ {selectedSkill} :
        /\ Rerender(ingredients, recipes, skill, sortBy, FALSE, FALSE)
        /\ last' = Event("skill", skill, Null, Absent)
    /\ UNCHANGED <<notice, groupedRecipes, selectedRecipe>>

\* A sort mode is chosen.
SelectSort ==
    /\ Ready
    /\ \E mode \in SortModes \ {sortBy} :
        /\ Rerender(ingredients, recipes, selectedSkill, mode, FALSE, FALSE)
        /\ last' = Event("sort", mode, Null, Absent)
    /\ UNCHANGED <<notice, groupedRecipes, selectedRecipe>>

\* handleDownload.
Download ==
    /\ Ready
    /\ last' = Event("download", Missing, Null, handleDownload(ingredients))
    /\ UNCHANGED <<ingredients, recipes, selectedSkill, sortBy, displayed, storage,
                   pc, notice, groupedRecipes, selectedRecipe>>

\* handleUpload and reader.onload: a file is chosen and read, either one of
\* UploadDocs or the document a download of the current prices wrote.
Upload ==
    /\ Ready
    /\ \E doc \in UploadDocs \cup {handleDownload(ingredients)} :
        /\ notice' = UploadNotice(doc)
        /\ last' = Event("upload", Missing, Null, doc)
        /\ IF doc.kind = "json" /\ NumericKeys(doc) # {}
           THEN Rerender(ApplyPrices(ingredients, doc, NumericKeys(doc)),
                         recipes, selectedSkill, sortBy, TRUE, FALSE)
           ELSE UNCHANGED <<ingredients, recipes, selectedSkill, sortBy, displayed,
                            storage, pc>>
    /\ UNCHANGED <<groupedRecipes, selectedRecipe>>

Next ==
    \/ RunMountEffects
    \/ CommitStartup
    \/ PriceEdit
    \/ SellEdit
    \/ SelectSkill
    \/ SelectSort
    \/ Download
    \/ Upload

Spec == Init /\ [][Next]_vars

-----------------------------------------------------------------------------
(* Properties.                                                             *)

RecipeById(recs, id) == FindRecipe(recs, id)[1]
IdsOf(recs) == {recs[i].id : i \in DOMAIN recs}
IndexOf(recs, id) == CHOOSE i \in DOMAIN recs : recs[i].id = id
IsNumber(x) == x.t = "number"

\* A handler has just run (the step is not a stuttering step).
Handled(op) == last'.op = op /\ events' = events + 1

\* What one ingredient entry {id, qty} adds to a cost.
Contribution(entry) ==
    IF entry.id \in DOMAIN ingredients
    THEN JsMul(ingredients[entry.id].defaultPrice, Num(entry.qty))
    ELSE IF entry.id \in IdsOf(recipes)
    THEN JsMul(RecipeById(recipes, entry.id).sellValue, Num(entry.qty))
    ELSE Num(0)

RECURSIVE SumOfContributions(_, _)
SumOfContributions(entries, n) ==
    IF n = 0 THEN Num(0)
    ELSE JsAdd(SumOfContributions(entries, n - 1), Contribution(entries[n]))

\* C1: the cost of every stored recipe is the sum, in order, of its entries'
\* contributions (ingredient price * qty; else the nested recipe's sell value
\* * qty; else 0), an empty list costs 0, and the profit is sellValue - cost.
C1_CostIsSumOfContributions ==
    \A i \in DOMAIN recipes :
        LET r == recipes[i]
            cost == calculateRecipeCost(r, ingredients, recipes)
        IN  /\ cost = SumOfContributions(r.ingredients, Len(r.ingredients))
            /\ r.ingredients = << >> => cost = Num(0)
            /\ Profit(r, ingredients, recipes) = JsSub(r.sellValue, cost)

\* R1's sell value was set to 45 and R2 = 2 * R1 + gem + 4 * mystery_dust
\* costs 2 * 45 plus the gem price.
C1_Witness ==
    /\ pc = "ready"
    /\ last.op = "sell" /\ last.id = "R1"
    /\ "gem" \in DOMAIN ingredients
    /\ IsNumber(ingredients["gem"].defaultPrice)
    /\ calculateRecipeCost(RecipeById(recipes, "R2"), ingredients, recipes)
         = Num(90 + ingredients["gem"].defaultPrice.v)
    /\ Profit(RecipeById(recipes, "R2"), ingredients, recipes).v > 0

\* C2: a price edit of a listed ingredient sets exactly that entry's
\* defaultPrice and a sell value edit sets exactly the matching recipe's
\* sellValue; every other entry and every other field keeps its value, and a
\* sell value edit with an id of no recipe changes no recipe.
C2_SettersChangeOnlyTheTarget ==
    [][ /\ Handled("price") =>
            /\ pc' = "ready"
            /\ DOMAIN ingredients' = DOMAIN ingredients
            /\ \A k \in DOMAIN ingredients :
                 ingredients'[k] =
                    IF k = last'.id
                    THEN [ingredients[k] EXCEPT !.defaultPrice = last'.val]
                    ELSE ingredients[k]
            /\ IdsOf(recipes') = IdsOf(recipes)
            /\ \A id \in IdsOf(recipes) :
                 RecipeById(recipes', id) = RecipeById(recipes, id)
        /\ Handled("sell") =>
            /\ pc' = "ready"
            /\ ingredients' = ingredients
            /\ IdsOf(recipes') = IdsOf(recipes)
            /\ Len(recipes') = Len(recipes)
            /\ \A id \in IdsOf(recipes) :
                 RecipeById(recipes', id) =
                    IF id = last'.id
                    THEN [RecipeById(recipes, id) EXCEPT !.sellValue = last'.val]
                    ELSE RecipeById(recipes, id)
      ]_vars

\* A price was edited and then a sell value edit named no recipe.
C2_Witness ==
    /\ pc = "ready"
    /\ events = 2
    /\ last.op = "sell" /\ last.id = "R9"
    /\ "gem" \in DOMAIN ingredients
    /\ ingredients["gem"].defaultPrice = Num(0)

\* C3: choosing a skill filter or a sort mode leaves the stored recipe
\* sequence as it was.
C3_SelectionsKeepStoredOrder ==
    [][ (Handled("skill") \/ Handled("sort")) => recipes' = recipes ]_vars

\* C4: an unparseable document in localStorage is treated as absent: startup
\* raises no error and the store holds the Catalog defaults for it.
C4_MalformedIsAbsence ==
    /\ persisted0.ingredients.kind = "malformed" =>
         /\ pc # "crashed"
         /\ pc = "ready" /\ events = 0 => ingredients = INGREDIENT_MAP
    /\ persisted0.recipes.kind = "malformed" =>
         /\ pc # "crashed"
         /\ pc = "ready" /\ events = 0 =>
              \A id \in RecipeIds : RecipeById(recipes, id) = CatalogRecipe(id)

\* C5: an import of a parseable document gives every numeric key its price,
\* all together, changes no other entry and shows the success notice; an
\* unparseable document shows the failure notice and changes no price.
C5_ImportAppliesNumericEntries ==
    [][ Handled("upload") =>
          LET doc == last'.doc
          IN  IF doc.kind = "json"
              THEN /\ notice' = "success"
                   /\ \A k \in NumericKeys(doc) :
                        /\ k \in DOMAIN ingredients'
                        /\ ingredients'[k].defaultPrice = doc.map[k]
                   /\ \A k \in DOMAIN ingredients \ NumericKeys(doc) :
                        /\ k \in DOMAIN ingredients'
                        /\ ingredients'[k] = ingredients[k]
              ELSE /\ notice' = "failed"
                   /\ ingredients' = ingredients
      ]_vars

\* C6: a price set for an id that is no known ingredient is stored and never
\* read: no consumer throws, and costs, profits, the export of the known
\* ingredients and the ingredient list stay as they were.
C6_UnknownIdIsHarmless ==
    [][ (Handled("upload") /\ last'.doc.kind = "json"
            /\ NumericKeys(last'.doc) \ DOMAIN ingredients # {}) =>
          /\ pc' # "crashed"
          /\ \A id \in IdsOf(recipes) :
               calculateRecipeCost(RecipeById(recipes', id), ingredients', recipes')
                 = calculateRecipeCost(RecipeById(recipes, id), ingredients, recipes)
          /\ \A k \in DOMAIN ingredients :
               handleDownload(ingredients').map[k] = handleDownload(ingredients).map[k]
      ]_vars

\* reader.onload applied to a document, on a given ingredient map.
ImportInto(doc, ing) == ApplyPrices(ing, doc, NumericKeys(doc))

\* Export of the current map, imported into a Catalog-default map.
RoundTrip == ImportInto(handleDownload(ingredients), INGREDIENT_MAP)

\* C7 as stated: the round trip reproduces the price of every ingredient id,
\* and a second import of the document changes nothing.
C7_RoundTripEveryPrice ==
    pc = "ready" =>
        /\ \A k \in DOMAIN ingredients :
             /\ k \in DOMAIN RoundTrip
             /\ RoundTrip[k].defaultPrice = ingredients[k].defaultPrice
        /\ ImportInto(handleDownload(ingredients), RoundTrip) = RoundTrip

\* C7 amended: the round trip reproduces the price of every ingredient id
\* whose price is a number other than NaN and not null, no entry of the
\* imported map loses its name, and a second import changes nothing.
C7_RoundTripNumericPrices ==
    pc = "ready" =>
        /\ \A k \in DOMAIN ingredients :
             IsNumber(ingredients[k].defaultPrice) =>
                /\ k \in DOMAIN RoundTrip
                /\ RoundTrip[k].defaultPrice = ingredients[k].defaultPrice
        /\ ~FilteredThrows(RoundTrip)
        /\ ImportInto(handleDownload(ingredients), RoundTrip) = RoundTrip

\* The prices were downloaded after iron_ore was priced away from its default.
C7_Witness ==
    /\ pc = "ready"
    /\ last.op = "download"
    /\ last.doc = handleDownload(ingredients)
    /\ ingredients["iron_ore"].defaultPrice = Num(0)
    /\ RoundTrip["iron_ore"].defaultPrice = Num(0)

\* The key a sort mode orders by.
SortKey(r, mode, ing, recs) ==
    IF mode = "profit" THEN Profit(r, ing, recs) ELSE calculateRecipeCost(r, ing, recs)

\* shown holds exactly the recipes of recs the skill filter keeps.
ShowsSelectedSkill(shown, recs, skill) ==
    /\ \A i, j \in DOMAIN shown : shown[i].id = shown[j].id => i = j
    /\ {shown[i] : i \in DOMAIN shown} =
         {recs[i] : i \in {j \in DOMAIN recs : skill = "All" \/ recs[j].skill = skill}}

\* shown is in key order: profit descending, totalCost ascending.
InKeyOrder(shown, mode, ing, recs) ==
    \A i, j \in DOMAIN shown :
        LET ki == SortKey(shown[i], mode, ing, recs)
            kj == SortKey(shown[j], mode, ing, recs)
        IN  (i < j /\ IsNumber(ki) /\ IsNumber(kj)) =>
                IF mode = "profit" THEN ki.v >= kj.v ELSE ki.v <= kj.v

\* Recipes of shown with equal keys are in the order they have in before.
TiesKeepOrder(shown, before, mode, ing, recs) ==
    \A i, j \in DOMAIN shown :
        (i < j /\ SortKey(shown[i], mode, ing, recs) = SortKey(shown[j], mode, ing, recs))
            => IndexOf(before, shown[i].id) < IndexOf(before, shown[j].id)

\* Every step that renders: the list shown after it, against the stored
\* sequence before it.
DisplayedIsFilteredAndSorted ==
    /\ ShowsSelectedSkill(displayed', recipes', selectedSkill')
    /\ sortBy' \in {"profit", "totalCost"} =>
         /\ InKeyOrder(displayed', sortBy', ingredients', recipes')
         /\ TiesKeepOrder(displayed', recipes, sortBy', ingredients', recipes')

\* C8 as stated: the list shown is the skill's recipes in key order with
\* stable ties, whatever the prices.
C8_DisplayedSorted ==
    [][ pc' = "ready" => DisplayedIsFilteredAndSorted ]_vars

\* C8 amended: the same, when no recipe shown has a NaN cost or profit (with
\* one, only the membership is kept).
C8_DisplayedSortedNumericKeys ==
    [][ pc' = "ready" =>
          /\ ShowsSelectedSkill(displayed', recipes', selectedSkill')
          /\ (\A i \in DOMAIN displayed' :
                 IsNumber(SortKey(displayed'[i], sortBy', ingredients', recipes')))
               => DisplayedIsFilteredAndSorted
      ]_vars

\* All recipes are shown by total cost, two of them tie and one does not.
C8_Witness ==
    /\ pc = "ready"
    /\ sortBy = "totalCost"
    /\ Len(displayed) = 3
    /\ last.op = "sort"
    /\ \A i \in DOMAIN displayed :
         IsNumber(calculateRecipeCost(displayed[i], ingredients, recipes))
    /\ calculateRecipeCost(displayed[1], ingredients, recipes)
         = calculateRecipeCost(displayed[2], ingredients, recipes)
    /\ calculateRecipeCost(displayed[2], ingredients, recipes).v
         < calculateRecipeCost(displayed[3], ingredients, recipes).v

\* C9: after a startup whose documents parse, every catalog ingredient is in
\* the store with its persisted price, or its Catalog price when none was
\* saved, and every recipe is the Catalog recipe with the persisted sellValue
\* where the overrides hold its id. (Stated for one run of the mount effects.)
C9_StartupOverlaysPersisted ==
    (pc = "ready" /\ events = 0 /\ effectRuns = 1) =>
        LET pi == persisted0.ingredients
            pr == persisted0.recipes
        IN  /\ \A k \in DOMAIN INGREDIENT_MAP :
                 /\ k \in DOMAIN ingredients
                 /\ ingredients[k].defaultPrice =
                      IF pi.kind = "json" /\ k \in DOMAIN pi.map
                      THEN pi.map[k].defaultPrice
                      ELSE INGREDIENT_MAP[k].defaultPrice
            /\ \A id \in RecipeIds :
                 RecipeById(recipes, id) =
                    IF pr.kind = "json" /\ id \in DOMAIN pr.map
                    THEN [CatalogRecipe(id) EXCEPT !.sellValue = pr.map[id].sellValue]
                    ELSE CatalogRecipe(id)

\* C10: once an event is processed localStorage holds the serialized store,
\* and a startup keeps the prices and sell values that were persisted.
C10_StorageFollowsStore ==
    pc = "ready" =>
        /\ storage.ingredients = StringifyIngredients(ingredients)
        /\ storage.recipes = StringifyRecipes(recipes)
        /\ (events = 0 /\ persisted0.ingredients.kind = "json") =>
              \A k \in DOMAIN persisted0.ingredients.map :
                 /\ k \in DOMAIN storage.ingredients.map
                 /\ storage.ingredients.map[k] = persisted0.ingredients.map[k]
        /\ (events = 0 /\ persisted0.recipes.kind = "json") =>
              \A id \in DOMAIN persisted0.recipes.map :
                 /\ id \in DOMAIN storage.recipes.map
                 /\ storage.recipes.map[id] = persisted0.recipes.map[id]

====
